---- MODULE Spec2Model ----
(***************************************************************************)
(* Model of crates/gpui/src/scene.rs: the Scene that collects the          *)
(* primitives of one paint pass, resolves hover state in finish and hands  *)
(* the primitives back as batches.                                         *)
(*                                                                         *)
(* A stored primitive is a record [order, payload, uid]: order is the      *)
(* `order` field, payload stands for every kind-specific field (fill,      *)
(* geometry, and for sprites tile.texture_id), and uid is a history tag    *)
(* naming the insert call the value was supplied to (the code has no such  *)
(* field; nothing in the model of the code reads it).                      *)
(***************************************************************************)
EXTENDS Integers, Sequences, FiniteSets, TLC

\* ------------------------------------------------------------ bounds
\* Primitives accepted in one scene lifetime.
MaxPrims == 2
\* Hover groups allocated in one scene lifetime.
MaxGroups == 2
\* Primitives accepted in a lifetime whose batches are traversed.
MaxBatchPrims == 3

\* ------------------------------------------------------------ constants
\* u32::MAX, the greatest order and the key BatchIterator::next gives an
\* exhausted kind.  The model's orders are 31 bits wide (the widest unsigned
\* type TLC's integers hold); only its being the greatest order matters.
U32Max == 2147483647

\* ------------------------------------------------------------ Option<T>
None == <<>>
Some(x) == <<x>>
IsSome(o) == o # <<>>
Unwrap(o) == o[1]
UnwrapOr(o, d) == IF IsSome(o) THEN Unwrap(o) ELSE d

EmptyMap == [x \in {} |-> 0]
Range(f) == {f[x] : x \in DOMAIN f}
Max2(a, b) == IF a >= b THEN a ELSE b
Min2(a, b) == IF a <= b THEN a ELSE b

\* ------------------------------------------------------------ PrimitiveKind
KindSeq ==
  << "Shadow", "Quad", "Path", "Underline",
     "MonochromeSprite", "PolychromeSprite", "Surface" >>
Kinds == {KindSeq[i] : i \in 1..Len(KindSeq)}
\* The derived Ord of the enum: the position of the variant.
PrimitiveKind(k) == (CHOOSE i \in 1..Len(KindSeq) : KindSeq[i] = k) - 1

\* Tuple comparison (a, kind) < (b, kind2) as derived for Rust tuples.
TupleLess(a, b) ==
  \/ a[1] < b[1]
  \/ a[1] = b[1] /\ PrimitiveKind(a[2]) < PrimitiveKind(b[2])

\* ------------------------------------------------------------ geometry
Bounds(x, y, w, h) ==
  [origin |-> [x |-> x, y |-> y], size |-> [width |-> w, height |-> h]]

\* Bounds::intersect: the rectangle between the larger origin and the smaller
\* lower-right corner; its size is negative when the two do not meet.
intersect(a, b) ==
  LET ulx == Max2(a.origin.x, b.origin.x)
      uly == Max2(a.origin.y, b.origin.y)
      lrx == Min2(a.origin.x + a.size.width, b.origin.x + b.size.width)
      lry == Min2(a.origin.y + a.size.height, b.origin.y + b.size.height)
  IN Bounds(ulx, uly, lrx - ulx, lry - uly)

\* Bounds::contains, as find_containing uses it.
contains(b, p) ==
  /\ p.x >= b.origin.x /\ p.x <= b.origin.x + b.size.width
  /\ p.y >= b.origin.y /\ p.y <= b.origin.y + b.size.height

\* The test every insert_* makes on the clipped bounds before anything else.
DegenerateLoose(clipped_bounds) ==
  clipped_bounds.size.width < 0 \/ clipped_bounds.size.height < 0
Degenerate(clipped_bounds) ==
  clipped_bounds.size.width <= 0 \/ clipped_bounds.size.height <= 0

\* Background::is_opaque, of the background a caller gives a quad.
is_opaque(background) == background = "opaque"

\* ------------------------------------------------------------ primitives
\* P { order, ..p }
WithOrder(p, order) == [p EXCEPT !.order = order]
\* What the Scene keeps of a caller's primitive, tagged with the call.
Tag(p, uid) == [order |-> p.order, payload |-> p.payload, uid |-> uid]
\* Option::map of the three functions above and of the payload projection.
OptWithOrder(o, order) == IF IsSome(o) THEN Some(WithOrder(Unwrap(o), order)) ELSE None
OptTag(o, uid) == IF IsSome(o) THEN Some(Tag(Unwrap(o), uid)) ELSE None
OptPayload(o) == IF IsSome(o) THEN Some(Unwrap(o).payload) ELSE None
TagGroups(gh, uid) ==
  [i \in 1..Len(gh) |-> <<gh[i][1], OptTag(gh[i][2], uid)>>]

\* ------------------------------------------------------------ state
VARIABLES
  prim_sets,            \* Scene.shadows .. Scene.surfaces, by kind
  bounds_tree,          \* Scene.bounds_tree: the entries, in insertion order
  hovered_bounds,       \* Scene.hovered_bounds
  next_hover_group,     \* Scene.next_hover_group
  hover_groups_by_name, \* Scene.hover_groups_by_name
  batch_iter,           \* a live BatchIterator and what it has yielded
  panicked,             \* an unwrap of None or an index out of range aborted
  phase,                \* "build" until finish, then "finished"
  ret,                  \* history: the last call and what it returned
  calls,                \* history: the accepted insert_* calls, in order
  allocated,            \* history: the hover groups allocated, in order
  hovered_groups,       \* history: finish's local hovered_groups
  walked,               \* history: how many hits finish's loop visited
  previous              \* history: the accepted calls of an earlier lifetime

vars ==
  << prim_sets, bounds_tree, hovered_bounds, next_hover_group,
     hover_groups_by_name, batch_iter, panicked, phase, ret, calls,
     allocated, hovered_groups, walked, previous >>

\* PrimitiveSet::default()
EmptySet ==
  [primitives |-> <<>>,
   primitive_metadata |-> EmptyMap,
   hover_group_membership |-> {},
   hover_group_variants |-> EmptyMap]

\* Scene::default()
Init ==
  /\ prim_sets = [k \in Kinds |-> EmptySet]
  /\ bounds_tree = <<>>
  /\ hovered_bounds = <<>>
  /\ next_hover_group = 0
  /\ hover_groups_by_name = EmptyMap
  /\ batch_iter = None
  /\ panicked = FALSE
  /\ phase = "build"
  /\ ret = [op |-> "new", val |-> None]
  /\ calls = <<>>
  /\ allocated = <<>>
  /\ hovered_groups = {}
  /\ walked = 0
  /\ previous = <<>>

\* ------------------------------------------------------------ BoundsTree
\* BoundsTree::insert: the order handed out, one more than the last one.
BoundsTree_order(tree, bounds) == Len(tree) + 1
BoundsTree_insert(tree, bounds, data) ==
  Append(tree,
         [bounds |-> bounds, order |-> BoundsTree_order(tree, bounds), data |-> data])

\* BoundsTree::find_containing: the entries whose bounds contain the point.
find_containing(tree, point) ==
  {i \in 1..Len(tree) : contains(tree[i].bounds, point)}

\* ------------------------------------------------------------ PrimitiveSet
RECURSIVE InsertGroupHovers(_, _, _, _)
\* The for loop of PrimitiveSet::insert over group_hovers, from entry i on.
InsertGroupHovers(set, index, group_hovers, i) ==
  IF i > Len(group_hovers) THEN set
  ELSE LET hover_group == group_hovers[i][1]
           primitive_variant == group_hovers[i][2]
           membership == set.hover_group_membership \cup {<<index, hover_group>>}
           variants ==
             IF IsSome(primitive_variant)
             THEN (<<hover_group, index>> :> Some(Unwrap(primitive_variant)))
                    @@ set.hover_group_variants
             ELSE set.hover_group_variants
       IN InsertGroupHovers(
            [set EXCEPT !.hover_group_membership = membership,
                        !.hover_group_variants = variants],
            index, group_hovers, i + 1)

\* The condition under which PrimitiveSet::insert records metadata.
MetadataWanted(occludes_hover, hover) == occludes_hover \/ IsSome(hover)

PrimitiveSet_insert(set, primitive, occludes_hover, hover, group_hovers) ==
  LET index == Len(set.primitives)
      pushed == [set EXCEPT !.primitives = Append(@, primitive)]
      withMeta ==
        IF MetadataWanted(occludes_hover, hover)
        THEN [pushed EXCEPT !.primitive_metadata =
                (index :> [occludes_hover |-> occludes_hover, hover |-> hover]) @@ @]
        ELSE pushed
  IN InsertGroupHovers(withMeta, index, group_hovers, 1)

\* A clear that empties the buffer and leaves the side tables.
PrimitiveSet_clear_primitives_only(set) == [set EXCEPT !.primitives = <<>>]
\* PrimitiveSet::clear
PrimitiveSet_clear(set) == EmptySet

\* ------------------------------------------------------------ Scene::insert_*
\* What each insert_* hands to PrimitiveSet::insert, given the order the
\* bounds tree returned.  GroupMap is the map over group_hovers that rewrites
\* the order of each variant.
GroupMap(order, group_hovers) ==
  [i \in 1..Len(group_hovers) |->
     <<group_hovers[i][1],
       OptWithOrder(group_hovers[i][2], order)>>]

\* A shadow whose hover variant makes it occlude.
shadow_args_hover_occludes(order, shadow, hover, group_hover) ==
  [primitive |-> WithOrder(shadow, order), occludes_hover |-> IsSome(hover),
   hover |-> hover, group_hovers |-> group_hover]
\* insert_shadow: hover and group_hover are passed on as the caller gave them.
shadow_args(order, shadow, hover, group_hover) ==
  [primitive |-> WithOrder(shadow, order), occludes_hover |-> FALSE,
   hover |-> hover, group_hovers |-> group_hover]

\* insert_quad: the occlusion flag is quad.background.is_opaque().
quad_args(order, quad, opaque, hover, group_hovers) ==
  [primitive |-> WithOrder(quad, order), occludes_hover |-> opaque,
   hover |-> OptWithOrder(hover, order),
   group_hovers |-> GroupMap(order, group_hovers)]

\* insert_path: hover.map(|quad| Path { order, ..path }) rebuilds the variant
\* from the base path.
path_args(order, path, hover, group_hovers) ==
  [primitive |-> WithOrder(path, order), occludes_hover |-> FALSE,
   hover |-> IF IsSome(hover) THEN Some(WithOrder(path, order)) ELSE None,
   group_hovers |-> GroupMap(order, group_hovers)]

\* insert_underline: the rewritten iterator is bound to group_hover and the
\* caller's group_hovers is what is passed on.
underline_args(order, underline, hover, group_hovers) ==
  [primitive |-> WithOrder(underline, order), occludes_hover |-> FALSE,
   hover |-> OptWithOrder(hover, order),
   group_hovers |-> group_hovers]

monochrome_sprite_args(order, monochrome_sprite, hover, group_hovers) ==
  [primitive |-> WithOrder(monochrome_sprite, order), occludes_hover |-> FALSE,
   hover |-> OptWithOrder(hover, order),
   group_hovers |-> GroupMap(order, group_hovers)]

polychrome_sprite_args(order, polychrome_sprite, hover, group_hovers) ==
  [primitive |-> WithOrder(polychrome_sprite, order), occludes_hover |-> FALSE,
   hover |-> OptWithOrder(hover, order),
   group_hovers |-> GroupMap(order, group_hovers)]

surface_args(order, surface, hover, group_hovers, occludes_hover) ==
  [primitive |-> WithOrder(surface, order), occludes_hover |-> occludes_hover,
   hover |-> OptWithOrder(hover, order),
   group_hovers |-> GroupMap(order, group_hovers)]

\* The early return None of an insert_*: nothing of the scene is touched.
Rejected(op) ==
  /\ ret' = [op |-> op, val |-> None]
  /\ batch_iter' = None
  /\ UNCHANGED << prim_sets, bounds_tree, hovered_bounds, next_hover_group,
                  hover_groups_by_name, panicked, phase, calls, allocated,
                  hovered_groups, walked, previous >>

\* The history entry of an accepted call: what the caller supplied (payloads
\* only; flag is the background's opacity of a quad, the occludes_hover
\* argument of a surface, FALSE for the other kinds) and the order returned.
CallEntry(kind, index, order, p, hover, group_hovers, flag) ==
  [kind |-> kind, index |-> index, order |-> order, payload |-> p.payload,
   hover |-> OptPayload(hover),
   groups |-> [i \in 1..Len(group_hovers) |->
                 <<group_hovers[i][1],
                   OptPayload(group_hovers[i][2])>>],
   flag |-> flag]

\* One order counter per kind instead of the one shared bounds tree.
TakeOrder_per_kind(tree, clipped_bounds, kind, index) ==
  Append(tree,
         [bounds |-> clipped_bounds,
          order |-> Cardinality({i \in 1..Len(tree) : tree[i].data.kind = kind}) + 1,
          data |-> [kind |-> kind, index |-> index]])
\* A handle that names the length of the store after the push.
TakeOrder_index_after_push(tree, clipped_bounds, kind, index) ==
  BoundsTree_insert(tree, clipped_bounds, [kind |-> kind, index |-> index + 1])
\* self.bounds_tree.insert(clipped_bounds, PrimitiveIndex { kind, index }):
\* every kind takes its order from the scene's one bounds tree.
TakeOrder(tree, clipped_bounds, kind, index) ==
  BoundsTree_insert(tree, clipped_bounds, [kind |-> kind, index |-> index])

\* The order the bounds tree returns for a primitive of this kind:
\* let order = self.bounds_tree.insert(clipped_bounds, PrimitiveIndex {..}).
OrderFor(kind, p) ==
  LET tree == TakeOrder(bounds_tree, intersect(p.bounds, p.content_mask.bounds),
                        kind, Len(prim_sets[kind].primitives))
  IN tree[Len(tree)].order

\* The common shape of insert_*: clip, reject or take an order from the
\* bounds tree under the handle (kind, len of the store), insert into the
\* store the arguments a that the kind builds from that order, return
\* Some(order).
Insert(op, kind, p, hover, group_hovers, flag, a) ==
  LET clipped_bounds == intersect(p.bounds, p.content_mask.bounds)
  IN IF Degenerate(clipped_bounds) THEN Rejected(op)
     ELSE LET index == Len(prim_sets[kind].primitives)
              tree == TakeOrder(bounds_tree, clipped_bounds, kind, index)
              order == tree[Len(tree)].order
          IN /\ bounds_tree' = tree
             /\ prim_sets' =
                  [prim_sets EXCEPT ![kind] =
                     PrimitiveSet_insert(@, a.primitive, a.occludes_hover,
                                         a.hover, a.group_hovers)]
             /\ ret' = [op |-> op, val |-> Some(order)]
             /\ calls' = Append(calls,
                                CallEntry(kind, index, order, p, hover,
                                          group_hovers, flag))
             /\ batch_iter' = None
             /\ UNCHANGED << hovered_bounds, next_hover_group,
                             hover_groups_by_name, panicked, phase, allocated,
                             hovered_groups, walked, previous >>

NextUid == Len(calls) + 1
TagHover(hover) == OptTag(hover, NextUid)

insert_shadow(shadow, hover, group_hover) ==
  Insert("insert_shadow", "Shadow", shadow, hover, group_hover, FALSE,
         shadow_args(OrderFor("Shadow", shadow), Tag(shadow, NextUid),
                     TagHover(hover), TagGroups(group_hover, NextUid)))

insert_quad(quad, hover, group_hovers) ==
  Insert("insert_quad", "Quad", quad, hover, group_hovers,
         is_opaque(quad.background),
         quad_args(OrderFor("Quad", quad), Tag(quad, NextUid),
                   is_opaque(quad.background), TagHover(hover),
                   TagGroups(group_hovers, NextUid)))

insert_path(path, hover, group_hovers) ==
  Insert("insert_path", "Path", path, hover, group_hovers, FALSE,
         path_args(OrderFor("Path", path), Tag(path, NextUid), TagHover(hover),
                   TagGroups(group_hovers, NextUid)))

insert_underline(underline, hover, group_hovers) ==
  Insert("insert_underline", "Underline", underline, hover, group_hovers, FALSE,
         underline_args(OrderFor("Underline", underline),
                        Tag(underline, NextUid), TagHover(hover),
                        TagGroups(group_hovers, NextUid)))

insert_monochrome_sprite(monochrome_sprite, hover, group_hovers) ==
  Insert("insert_monochrome_sprite", "MonochromeSprite", monochrome_sprite,
         hover, group_hovers, FALSE,
         monochrome_sprite_args(OrderFor("MonochromeSprite", monochrome_sprite),
                                Tag(monochrome_sprite, NextUid), TagHover(hover),
                                TagGroups(group_hovers, NextUid)))

insert_polychrome_sprite(polychrome_sprite, hover, group_hovers) ==
  Insert("insert_polychrome_sprite", "PolychromeSprite", polychrome_sprite,
         hover, group_hovers, FALSE,
         polychrome_sprite_args(OrderFor("PolychromeSprite", polychrome_sprite),
                                Tag(polychrome_sprite, NextUid), TagHover(hover),
                                TagGroups(group_hovers, NextUid)))

insert_surface(surface, hover, group_hovers, occludes_hover) ==
  Insert("insert_surface", "Surface", surface, hover, group_hovers,
         occludes_hover,
         surface_args(OrderFor("Surface", surface), Tag(surface, NextUid),
                      TagHover(hover), TagGroups(group_hovers, NextUid),
                      occludes_hover))

\* ------------------------------------------------------------ Scene::hover_group
\* A lookup that allocates on every call, known name or not.
hover_group_result_always_fresh(name) ==
  [group |-> next_hover_group,
   next |-> next_hover_group + 1,
   names |-> IF IsSome(name)
             THEN (Unwrap(name) :> next_hover_group) @@ hover_groups_by_name
             ELSE hover_groups_by_name,
   fresh |-> TRUE]
\* The group returned and the state left behind, for a name or for None.
hover_group_result(name) ==
  IF IsSome(name) /\ Unwrap(name) \in DOMAIN hover_groups_by_name
  THEN [group |-> hover_groups_by_name[Unwrap(name)],
        next |-> next_hover_group, names |-> hover_groups_by_name, fresh |-> FALSE]
  ELSE [group |-> next_hover_group,
        next |-> next_hover_group + 1,
        names |-> IF IsSome(name)
                  THEN (Unwrap(name) :> next_hover_group) @@ hover_groups_by_name
                  ELSE hover_groups_by_name,
        fresh |-> TRUE]

hover_group(name) ==
  LET r == hover_group_result(name)
  IN /\ next_hover_group' = r.next
     /\ hover_groups_by_name' = r.names
     /\ ret' = [op |-> "hover_group", arg |-> name, val |-> Some(r.group)]
     /\ allocated' = IF r.fresh THEN Append(allocated, r.group) ELSE allocated
     /\ batch_iter' = None
     /\ UNCHANGED << prim_sets, bounds_tree, hovered_bounds, panicked, phase,
                     calls, hovered_groups, walked, previous >>

\* ------------------------------------------------------------ Scene::clear
\* A clear that leaves the bounds tree as it is.
clear_keeps_bounds_tree ==
  /\ prim_sets' = [k \in Kinds |-> PrimitiveSet_clear(prim_sets[k])]
  /\ bounds_tree' = bounds_tree
  /\ hovered_bounds' = <<>>
  /\ next_hover_group' = 0
  /\ hover_groups_by_name' = EmptyMap
  /\ batch_iter' = None
  /\ phase' = "build"
  /\ ret' = [op |-> "clear", val |-> None]
  /\ calls' = <<>>
  /\ allocated' = <<>>
  /\ hovered_groups' = {}
  /\ walked' = 0
  /\ UNCHANGED panicked
clear ==
  /\ prim_sets' = [k \in Kinds |-> PrimitiveSet_clear(prim_sets[k])]
  /\ bounds_tree' = <<>>
  /\ hovered_bounds' = <<>>
  /\ next_hover_group' = 0
  /\ hover_groups_by_name' = EmptyMap
  /\ batch_iter' = None
  /\ phase' = "build"
  /\ ret' = [op |-> "clear", val |-> None]
  /\ calls' = <<>>
  /\ allocated' = <<>>
  /\ hovered_groups' = {}
  /\ walked' = 0
  /\ UNCHANGED panicked

\* ------------------------------------------------------------ sorting
\* The arrangements of a finite set, and of a sequence.
SeqsOf(S) ==
  {f \in [1..Cardinality(S) -> S] :
     \A i, j \in 1..Cardinality(S) : i # j => f[i] # f[j]}
PermsOfSeq(s) == {[i \in 1..Len(s) |-> s[f[i]]] : f \in SeqsOf(1..Len(s))}

\* sort_unstable_by_key(|p| p.order): any arrangement with ascending keys
\* (the order of equal keys is unspecified).
SortedByOrder(s) ==
  {t \in PermsOfSeq(s) : \A i, j \in 1..Len(t) : i < j => t[i].order <= t[j].order}
\* A sort of the hits without the Reverse: bottom first.
SortedBottomFirst(s) ==
  {t \in PermsOfSeq(s) : \A i, j \in 1..Len(t) : i < j => t[i].order <= t[j].order}
\* sort_unstable_by_key(|hovered| Reverse(hovered.order))
SortedByReverseOrder(s) ==
  {t \in PermsOfSeq(s) : \A i, j \in 1..Len(t) : i < j => t[i].order >= t[j].order}

\* ------------------------------------------------------------ PrimitiveSet::hover
\* The groups of hover_group_membership in the range (index, 0)..(index + 1, 0).
GroupsOfIndex(set, index) ==
  {m[2] : m \in {n \in set.hover_group_membership : n[1] = index}}

PrimitiveSet_hover(set, index, groups) ==
  IF index \in DOMAIN set.primitive_metadata
  THEN LET metadata == set.primitive_metadata[index]
           primitives ==
             IF IsSome(metadata.hover)
             THEN [set.primitives EXCEPT ![index + 1] = Unwrap(metadata.hover)]
             ELSE set.primitives
       IN [set |-> [set EXCEPT !.primitives = primitives,
                               !.primitive_metadata[index].hover = None],
           hovered_groups |-> groups \cup GroupsOfIndex(set, index),
           occludes_hover |-> metadata.occludes_hover]
  ELSE [set |-> set, hovered_groups |-> groups, occludes_hover |-> FALSE]

\* ------------------------------------------------------------ PrimitiveSet::hover_groups
\* A range that takes in every entry of hover_group_variants.
HoverEveryGroup(set, group) ==
  LET live == {key \in DOMAIN set.hover_group_variants :
                 IsSome(set.hover_group_variants[key])}
  IN [set |->
        [set EXCEPT
           !.primitives =
             [i \in 1..Len(set.primitives) |->
                IF \E key \in live : key[2] = i - 1
                THEN Unwrap(set.hover_group_variants[
                              CHOOSE key \in live : key[2] = i - 1])
                ELSE set.primitives[i]],
           !.hover_group_variants =
             [key \in DOMAIN set.hover_group_variants |-> None]],
      panicked |-> FALSE]
\* A loop body that writes a group variant only over a primitive that has no
\* metadata entry, so that a hovered primitive keeps what hover gave it.
HoverOneGroup_unhovered_only(set, group) ==
  LET keys == {key \in DOMAIN set.hover_group_variants : key[1] = group}
      live == {key \in keys : IsSome(set.hover_group_variants[key])}
  IN [set |->
        [set EXCEPT
           !.primitives =
             [i \in 1..Len(set.primitives) |->
                IF <<group, i - 1>> \in live
                     /\ (i - 1) \notin DOMAIN set.primitive_metadata
                THEN Unwrap(set.hover_group_variants[<<group, i - 1>>])
                ELSE set.primitives[i]],
           !.hover_group_variants =
             [key \in DOMAIN set.hover_group_variants |->
                IF key \in keys THEN None ELSE set.hover_group_variants[key]]],
      panicked |-> live # keys]
\* The body of the outer loop for one group: every (group, index) entry of
\* hover_group_variants is taken and written over primitives[index]; taking
\* an entry that holds None is the unwrap that panics.
HoverOneGroup(set, group) ==
  LET keys == {key \in DOMAIN set.hover_group_variants : key[1] = group}
      live == {key \in keys : IsSome(set.hover_group_variants[key])}
  IN [set |->
        [set EXCEPT
           !.primitives =
             [i \in 1..Len(set.primitives) |->
                IF <<group, i - 1>> \in live
                THEN Unwrap(set.hover_group_variants[<<group, i - 1>>])
                ELSE set.primitives[i]],
           !.hover_group_variants =
             [key \in DOMAIN set.hover_group_variants |->
                IF key \in keys THEN None ELSE set.hover_group_variants[key]]],
      panicked |-> live # keys]

RECURSIVE PrimitiveSet_hover_groups(_, _, _)
\* groups is the iteration order of the FxHashSet, from entry i on.
PrimitiveSet_hover_groups(set, groups, i) ==
  IF i > Len(groups) THEN [set |-> set, panicked |-> FALSE]
  ELSE LET one == HoverOneGroup(set, groups[i])
           rest == PrimitiveSet_hover_groups(one.set, groups, i + 1)
       IN IF one.panicked THEN one ELSE rest

\* ------------------------------------------------------------ Scene::finish
RECURSIVE WalkNoBreak(_, _, _)
\* A loop without the break.
WalkNoBreak(hits, i, w) ==
  IF i > Len(hits) THEN w
  ELSE LET kind == hits[i].data.kind
           r == PrimitiveSet_hover(w.sets[kind], hits[i].data.index, w.groups)
       IN WalkNoBreak(hits, i + 1,
                      [sets |-> [w.sets EXCEPT ![kind] = r.set],
                       groups |-> r.hovered_groups,
                       n |-> IF r.occludes_hover /\ w.n = i - 1 THEN i ELSE w.n])
RECURSIVE Walk(_, _, _)
\* The for loop over hovered_bounds from hit i on; w carries the stores, the
\* groups collected and the number of hits visited.  The loop breaks after
\* the first hit whose hover reports occlusion.
Walk(hits, i, w) ==
  IF i > Len(hits) THEN w
  ELSE LET kind == hits[i].data.kind
           r == PrimitiveSet_hover(w.sets[kind], hits[i].data.index, w.groups)
           w2 == [sets |-> [w.sets EXCEPT ![kind] = r.set],
                  groups |-> r.hovered_groups, n |-> i]
       IN IF r.occludes_hover THEN w2 ELSE Walk(hits, i + 1, w2)

HitSeq(tree, point) ==
  LET idx == find_containing(tree, point)
      f == CHOOSE g \in SeqsOf(idx) : \A i, j \in 1..Cardinality(idx) : i < j => g[i] < g[j]
  IN [i \in 1..Cardinality(idx) |-> tree[f[i]]]

\* What finish can leave behind: one result for each order in which the
\* FxHashSet hands out the active groups and each arrangement the unstable
\* sorts may give to equal keys.
FinishResults(mouse_position) ==
  UNION {
    LET w == Walk(hits, 1, [sets |-> prim_sets, groups |-> {}, n |-> 0])
    IN UNION {
         LET g == [k \in Kinds |-> PrimitiveSet_hover_groups(w.sets[k], groups, 1)]
             panic == \E k \in Kinds : g[k].panicked
         IN {[hovered_bounds |-> hits,
              prim_sets |->
                LET sorted == << s1, s2, s3, s4, s5, s6, s7 >>
                IN IF panic THEN [k \in Kinds |-> g[k].set]
                   ELSE [k \in Kinds |->
                           [g[k].set EXCEPT
                              !.primitives = sorted[PrimitiveKind(k) + 1]]],
              panicked |-> panic,
              hovered_groups |-> w.groups,
              walked |-> w.n] :
              s1 \in SortedByOrder(g["Shadow"].set.primitives),
              s2 \in SortedByOrder(g["Quad"].set.primitives),
              s3 \in SortedByOrder(g["Path"].set.primitives),
              s4 \in SortedByOrder(g["Underline"].set.primitives),
              s5 \in SortedByOrder(g["MonochromeSprite"].set.primitives),
              s6 \in SortedByOrder(g["PolychromeSprite"].set.primitives),
              s7 \in SortedByOrder(g["Surface"].set.primitives)} :
         groups \in SeqsOf(w.groups)} :
    hits \in SortedByReverseOrder(HitSeq(bounds_tree, mouse_position))}

finish(mouse_position) ==
  \E r \in FinishResults(mouse_position) :
    /\ hovered_bounds' = r.hovered_bounds
    /\ prim_sets' = r.prim_sets
    /\ panicked' = r.panicked
    /\ phase' = "finished"
    /\ ret' = [op |-> "finish", val |-> None]
    /\ hovered_groups' = r.hovered_groups
    /\ walked' = r.walked
    /\ batch_iter' = None
    /\ UNCHANGED << bounds_tree, next_hover_group, hover_groups_by_name, calls,
                    allocated, previous >>

\* ------------------------------------------------------------ Scene::batches
\* A BatchIterator at rest: start[k] is k's X_start, which is also how far
\* k's peekable iterator has advanced; out is what next has yielded so far;
\* ended says that the last next returned None.
batches ==
  /\ batch_iter' = Some([start |-> [k \in Kinds |-> 0], out |-> <<>>, ended |-> FALSE])
  /\ ret' = [op |-> "batches", val |-> None]
  /\ UNCHANGED << prim_sets, bounds_tree, hovered_bounds, next_hover_group,
                  hover_groups_by_name, panicked, phase, calls, allocated,
                  hovered_groups, walked, previous >>

\* X_iter.peek().map(|p| p.order)
Peek(it, k) ==
  IF it.start[k] < Len(prim_sets[k].primitives)
  THEN Some(prim_sets[k].primitives[it.start[k] + 1].order)
  ELSE None

\* The sort key of orders_and_kinds.
SortKey(it, k) == << UnwrapOr(Peek(it, k), U32Max), k >>
\* orders_and_kinds[0].1 and orders_and_kinds[1].1 after the sort.
FirstKind(it) ==
  CHOOSE k \in Kinds : \A j \in Kinds \ {k} : TupleLess(SortKey(it, k), SortKey(it, j))
SecondKind(it) ==
  CHOOSE k \in Kinds \ {FirstKind(it)} :
    \A j \in Kinds \ {FirstKind(it), k} : TupleLess(SortKey(it, k), SortKey(it, j))

SpriteKinds == {"MonochromeSprite", "PolychromeSprite"}
\* tile.texture_id of a sprite.
texture_id(sprite) == sprite.payload

\* A next_if that compares orders only, in every arm.
NextIf_order_only(p, batch_kind, max_order_and_kind, texture) ==
  TupleLess(<< p.order, batch_kind >>, max_order_and_kind)
\* The predicate of next_if in the arm of batch_kind.
NextIf(p, batch_kind, max_order_and_kind, texture) ==
  /\ TupleLess(<< p.order, batch_kind >>, max_order_and_kind)
  /\ batch_kind \in SpriteKinds => texture_id(p) = texture

\* A loop that hands back an empty slice.
BatchEndEmpty(primitives, end, batch_kind, max_order_and_kind, texture) == end - 1
\* A loop that never runs: every batch holds one primitive.
BatchEndSingle(primitives, end, batch_kind, max_order_and_kind, texture) == end
RECURSIVE BatchEnd(_, _, _, _, _)
\* The while loop that advances X_end while next_if accepts the next element.
BatchEnd(primitives, end, batch_kind, max_order_and_kind, texture) ==
  IF /\ end < Len(primitives)
     /\ NextIf(primitives[end + 1], batch_kind, max_order_and_kind, texture)
  THEN BatchEnd(primitives, end + 1, batch_kind, max_order_and_kind, texture)
  ELSE end

\* BatchIterator::next
BatchIterator_next ==
  /\ batch_iter # None
  /\ LET it == Unwrap(batch_iter)
         first == FirstKind(it)
         second == SecondKind(it)
     IN IF Peek(it, first) = None
        THEN /\ batch_iter' = Some([it EXCEPT !.ended = TRUE])
             /\ ret' = [op |-> "next", val |-> None]
        ELSE LET batch_kind == first
                 max_order_and_kind ==
                   << UnwrapOr(Peek(it, second), U32Max), second >>
                 primitives == prim_sets[batch_kind].primitives
                 start == it.start[batch_kind]
                 texture == texture_id(primitives[start + 1])
                 end == BatchEnd(primitives, start + 1, batch_kind,
                                 max_order_and_kind, texture)
                 batch == [kind |-> batch_kind,
                           texture_id |-> IF batch_kind \in SpriteKinds
                                          THEN Some(texture) ELSE None,
                           items |-> SubSeq(primitives, start + 1, end)]
             IN /\ batch_iter' =
                     Some([it EXCEPT !.start[batch_kind] = end,
                                     !.out = Append(@, batch)])
                /\ ret' = [op |-> "next", val |-> Some(batch)]
  /\ UNCHANGED << prim_sets, bounds_tree, hovered_bounds, next_hover_group,
                  hover_groups_by_name, panicked, phase, calls, allocated,
                  hovered_groups, walked, previous >>

\* ------------------------------------------------------------ callers
\* The rectangles, pointer positions and payloads the callers draw from.
\* Clipped by ClipMask, WideBounds covers x in 0..6 and RightBounds x in 4..6;
\* FlatMask leaves a height of zero and FarMask a negative width.
WideBounds == Bounds(0, 0, 8, 2)
RightBounds == Bounds(4, 0, 8, 2)
ClipMask == Bounds(0, 0, 6, 2)
FlatMask == Bounds(0, 1, 12, 0)
FarMask == Bounds(20, 0, 1, 2)
BoundsChoices == {WideBounds, RightBounds}
MaskChoices == {ClipMask, FlatMask, FarMask}
\* Over WideBounds only, over both, and over neither (inside the unclipped
\* bounds of both).
MouseLeft == [x |-> 2, y |-> 1]
MouseBoth == [x |-> 5, y |-> 1]
MouseOut == [x |-> 7, y |-> 1]
MousePositions == {MouseLeft, MouseBoth, MouseOut}

\* The order a caller leaves in a primitive it builds.
VarOrders == {0}
Prims(payloads) ==
  {[bounds |-> b, content_mask |-> [bounds |-> m], order |-> 0, payload |-> p] :
     b \in BoundsChoices, m \in MaskChoices, p \in payloads}
Quads(payloads) ==
  {[bounds |-> b, content_mask |-> [bounds |-> m], order |-> 0, payload |-> p,
    background |-> bg] :
     b \in BoundsChoices, m \in MaskChoices, p \in payloads,
     bg \in {"opaque", "clear"}}
Variants(payloads) == {[order |-> o, payload |-> p] : o \in VarOrders, p \in payloads}
HoverChoices == {None} \cup {Some(v) : v \in Variants({"h"})}
\* At most one (group, variant) pair, the group one that hover_group returned.
GroupChoices ==
  {<<>>} \cup {<< <<g, Some(v)>> >> : g \in 0..(next_hover_group - 1),
                                     v \in Variants({"g"})}

\* A frame as the spec's lifecycle has it: primitives are inserted until
\* finish is called, once; clear starts the next frame.
Building == ~panicked /\ phase = "build"
CanInsert == Building /\ Len(bounds_tree) < MaxPrims

Next ==
  \/ \E p \in Prims({"a"}), h \in HoverChoices, g \in GroupChoices :
       CanInsert /\ insert_shadow(p, h, g)
  \/ \E p \in Quads({"a"}), h \in HoverChoices, g \in GroupChoices :
       CanInsert /\ insert_quad(p, h, g)
  \/ \E p \in Prims({"a"}), h \in HoverChoices, g \in GroupChoices :
       CanInsert /\ insert_path(p, h, g)
  \/ \E p \in Prims({"a"}), h \in HoverChoices, g \in GroupChoices :
       CanInsert /\ insert_underline(p, h, g)
  \/ \E p \in Prims({"a"}), h \in HoverChoices, g \in GroupChoices :
       CanInsert /\ insert_monochrome_sprite(p, h, g)
  \/ \E p \in Prims({"a"}), h \in HoverChoices, g \in GroupChoices :
       CanInsert /\ insert_polychrome_sprite(p, h, g)
  \/ \E p \in Prims({"a"}), h \in HoverChoices, g \in GroupChoices,
        o \in BOOLEAN :
       CanInsert /\ insert_surface(p, h, g, o)
  \/ Building /\ next_hover_group < MaxGroups /\ hover_group(None)
  \/ \E m \in MousePositions : Building /\ finish(m)
  \/ ~panicked /\ phase = "finished" /\ batch_iter = None /\ batches
  \/ ~panicked /\ batch_iter # None /\ ~Unwrap(batch_iter).ended /\ BatchIterator_next
  \/ ~panicked /\ clear /\ UNCHANGED previous

Spec == Init /\ [][Next]_vars

\* A frame whose callers look groups up by name and insert plain primitives.
Names == {"a", "b"}
NameChoices == {None} \cup {Some(n) : n \in Names}
PlainPrims ==
  {[bounds |-> WideBounds, content_mask |-> [bounds |-> m], order |-> 0,
    payload |-> "a"] : m \in {ClipMask, FlatMask}}
PlainQuads ==
  {[bounds |-> WideBounds, content_mask |-> [bounds |-> m], order |-> 0,
    payload |-> "a", background |-> "clear"] : m \in {ClipMask, FlatMask}}

NextGroups ==
  \/ \E p \in PlainPrims, g \in GroupChoices : CanInsert /\ insert_shadow(p, None, g)
  \/ \E p \in PlainQuads, g \in GroupChoices : CanInsert /\ insert_quad(p, None, g)
  \/ \E p \in PlainPrims, g \in GroupChoices : CanInsert /\ insert_path(p, None, g)
  \/ \E p \in PlainPrims, g \in GroupChoices : CanInsert /\ insert_underline(p, None, g)
  \/ \E p \in PlainPrims, g \in GroupChoices :
       CanInsert /\ insert_monochrome_sprite(p, None, g)
  \/ \E p \in PlainPrims, g \in GroupChoices :
       CanInsert /\ insert_polychrome_sprite(p, None, g)
  \/ \E p \in PlainPrims, g \in GroupChoices :
       CanInsert /\ insert_surface(p, None, g, FALSE)
  \/ \E n \in NameChoices :
       /\ ~panicked
       /\ hover_group_result(n).fresh => next_hover_group < MaxGroups
       /\ hover_group(n)
  \/ Building /\ finish(MouseBoth)
  \/ ~panicked /\ phase = "finished" /\ batch_iter = None /\ batches
  \/ ~panicked /\ batch_iter # None /\ ~Unwrap(batch_iter).ended /\ BatchIterator_next
  \/ ~panicked /\ clear /\ UNCHANGED previous

SpecGroups == Init /\ [][NextGroups]_vars

\* A caller that keeps what the inserts of a lifetime returned, clears the
\* scene and inserts again.
\* A quad alone, or an opaque one with a hover variant and, once a group
\* exists, a variant under group 0.
ReplayQuadChoices ==
  {<< q, None, <<>> >> : q \in PlainQuads}
    \cup {<< [q EXCEPT !.background = "opaque"], Some([order |-> 0, payload |-> "h"]), g >> :
            q \in PlainQuads,
            g \in {<<>>} \cup (IF next_hover_group > 0
                               THEN {<< <<0, Some([order |-> 0, payload |-> "g"])>> >>}
                               ELSE {})}
SpecReplayNext ==
  \/ \E p \in PlainPrims : CanInsert /\ insert_shadow(p, None, <<>>)
  \/ \E c \in ReplayQuadChoices : CanInsert /\ insert_quad(c[1], c[2], c[3])
  \/ \E p \in PlainPrims : CanInsert /\ insert_monochrome_sprite(p, None, <<>>)
  \/ \E p \in PlainPrims : CanInsert /\ insert_surface(p, None, <<>>, FALSE)
  \/ Building /\ next_hover_group < MaxGroups /\ hover_group(None)
  \/ Building /\ finish(MouseLeft)
  \/ ~panicked /\ batch_iter = None /\ batches
  \/ ~panicked /\ batch_iter # None /\ ~Unwrap(batch_iter).ended /\ BatchIterator_next
  \/ ~panicked /\ clear /\ previous' = calls

SpecReplay == Init /\ [][SpecReplayNext]_vars

\* A frame whose batches are traversed: stacked primitives, sprites of two
\* textures, and variants that carry an order of the caller's (one that an
\* order of the bounds tree can equal, and u32::MAX).
Textures == {"t1", "t2"}
CallerOrders == {2, U32Max}
StackedPrims(payloads) ==
  {[bounds |-> WideBounds, content_mask |-> [bounds |-> ClipMask], order |-> 0,
    payload |-> p] : p \in payloads}
StackedQuads ==
  {[bounds |-> WideBounds, content_mask |-> [bounds |-> ClipMask], order |-> 0,
    payload |-> "a", background |-> "clear"]}
CallerVariants(payloads) ==
  {[order |-> o, payload |-> p] : o \in CallerOrders, p \in payloads}
ShadowHoverChoices == {None} \cup {Some(v) : v \in CallerVariants({"h"})}
\* An underline alone, or one with a hover variant and a variant under group 0.
UnderlineChoices ==
  {<< None, <<>> >>}
    \cup {<< Some([order |-> 0, payload |-> "h"]), << <<0, Some(v)>> >> >> :
            v \in IF next_hover_group > 0 THEN CallerVariants({"g"}) ELSE {}}
CanInsertBatch == Building /\ Len(bounds_tree) < MaxBatchPrims

SpecBatchNext ==
  \/ \E p \in StackedPrims({"a"}), h \in ShadowHoverChoices :
       CanInsertBatch /\ insert_shadow(p, h, <<>>)
  \/ \E p \in StackedQuads : CanInsertBatch /\ insert_quad(p, None, <<>>)
  \/ \E p \in StackedPrims({"a"}) : CanInsertBatch /\ insert_path(p, None, <<>>)
  \/ \E p \in StackedPrims({"a"}), u \in UnderlineChoices :
       CanInsertBatch /\ insert_underline(p, u[1], u[2])
  \/ \E p \in StackedPrims(Textures) :
       CanInsertBatch /\ insert_monochrome_sprite(p, None, <<>>)
  \/ \E p \in StackedPrims(Textures) :
       CanInsertBatch /\ insert_polychrome_sprite(p, None, <<>>)
  \/ \E p \in StackedPrims({"a"}) :
       CanInsertBatch /\ insert_surface(p, None, <<>>, FALSE)
  \/ Building /\ next_hover_group = 0 /\ hover_group(None)
  \/ Building /\ finish(MouseLeft)
  \/ ~panicked /\ phase = "finished" /\ batch_iter = None /\ batches
  \/ ~panicked /\ batch_iter # None /\ ~Unwrap(batch_iter).ended /\ BatchIterator_next

SpecBatch == Init /\ [][SpecBatchNext]_vars

\* A scene that is finished more than once before it is cleared, and whose
\* primitives may carry variants under two groups.
FrameHoverChoices == {None, Some([order |-> 0, payload |-> "h"])}
FrameGroupChoices ==
  {<<>>}
    \cup (IF next_hover_group > 0
          THEN {<< <<0, Some([order |-> 0, payload |-> "g0"])>> >>} ELSE {})
    \cup (IF next_hover_group > 1
          THEN {<< <<0, Some([order |-> 0, payload |-> "g0"])>>,
                   <<1, Some([order |-> 0, payload |-> "g1"])>> >>} ELSE {})
FrameQuads ==
  {[bounds |-> WideBounds, content_mask |-> [bounds |-> ClipMask], order |-> 0,
    payload |-> "a", background |-> bg] : bg \in {"opaque", "clear"}}

SpecFramesNext ==
  \/ \E q \in FrameQuads, h \in FrameHoverChoices, g \in FrameGroupChoices :
       CanInsert /\ insert_quad(q, h, g)
  \/ \E p \in StackedPrims({"a"}), h \in FrameHoverChoices, g \in FrameGroupChoices :
       CanInsert /\ insert_monochrome_sprite(p, h, g)
  \/ \E p \in StackedPrims({"a"}), g \in FrameGroupChoices, o \in BOOLEAN :
       CanInsert /\ insert_surface(p, None, g, o)
  \/ Building /\ next_hover_group < MaxGroups /\ hover_group(None)
  \/ ~panicked /\ finish(MouseLeft)
  \/ ~panicked /\ clear /\ UNCHANGED previous

SpecFrames == Init /\ [][SpecFramesNext]_vars

\* ------------------------------------------------------------ claims
InsertOps ==
  {"insert_shadow", "insert_quad", "insert_path", "insert_underline",
   "insert_monochrome_sprite", "insert_polychrome_sprite", "insert_surface"}
Uids == 1..Len(calls)
\* The primitive that call u's store holds for it, wherever the sort put it.
StoredOf(u) ==
  LET store == prim_sets[calls[u].kind].primitives
  IN store[CHOOSE i \in 1..Len(store) : store[i].uid = u]
StoredCount ==
  LET n(k) == Len(prim_sets[k].primitives)
  IN n("Shadow") + n("Quad") + n("Path") + n("Underline")
       + n("MonochromeSprite") + n("PolychromeSprite") + n("Surface")

\* C1: within one scene lifetime the orders returned by the accepted insert_*
\* calls, of whatever kinds, are strictly increasing in call sequence (hence
\* pairwise distinct), and each call returns the order its primitive was
\* given in the bounds tree.
C1_OrdersStrictlyIncreasing ==
  /\ \A i, j \in Uids : i < j => calls[i].order < calls[j].order
  /\ \A i \in Uids : calls[i].order = bounds_tree[i].order
  /\ (ret.op \in InsertOps /\ IsSome(ret.val)) =>
       Unwrap(ret.val) = calls[Len(calls)].order
C1_Witness ==
  /\ Len(calls) = 2
  /\ calls[1].kind = "Surface" /\ calls[2].kind = "Shadow"
  /\ ret = [op |-> "insert_shadow", val |-> Some(calls[2].order)]

\* C2: an insert_* whose clipped bounds have a width or a height <= 0 returns
\* None and changes nothing of the scene (no store, no bounds-tree entry, no
\* order, no hover or group metadata); so every bounds-tree entry, every hit of
\* finish and every batched primitive comes from an accepted call with clipped
\* bounds of positive width and height.
RejectedStep == ret'.op \in InsertOps /\ ret'.val = None
OnlyAcceptedStored ==
  /\ \A i \in 1..Len(bounds_tree) :
       /\ bounds_tree[i].bounds.size.width > 0
       /\ bounds_tree[i].bounds.size.height > 0
  /\ Len(bounds_tree) = Len(calls)
  /\ StoredCount = Len(calls)
  /\ \A i \in 1..Len(hovered_bounds) : hovered_bounds[i] \in Range(bounds_tree)
  /\ batch_iter # None =>
       \A b \in Range(Unwrap(batch_iter).out) :
         \A q \in Range(b.items) : q.uid \in Uids
C2_RejectedInsertChangesNothing ==
  [][/\ RejectedStep =>
          UNCHANGED << prim_sets, bounds_tree, hovered_bounds, next_hover_group,
                       hover_groups_by_name, calls >>
     /\ OnlyAcceptedStored']_vars
C2_Witness ==
  /\ ret.op = "insert_polychrome_sprite" /\ ret.val = None
  /\ Len(calls) = 1 /\ next_hover_group = 1

\* C10: within one scene lifetime a named lookup returns the identifier the
\* name already has and allocates nothing, distinct names have distinct
\* identifiers, an anonymous lookup returns an identifier never returned
\* before, the k-th identifier allocated is k - 1, and clear forgets the names
\* and starts again from zero.
C10_State ==
  /\ \A n1, n2 \in DOMAIN hover_groups_by_name :
       n1 # n2 => hover_groups_by_name[n1] # hover_groups_by_name[n2]
  /\ allocated = [i \in 1..next_hover_group |-> i - 1]
  /\ Range(hover_groups_by_name) \subseteq Range(allocated)
C10_Step ==
  /\ ret'.op = "hover_group" =>
       LET id == Unwrap(ret'.val)
           known == IsSome(ret'.arg) /\ Unwrap(ret'.arg) \in DOMAIN hover_groups_by_name
       IN /\ known => /\ id = hover_groups_by_name[Unwrap(ret'.arg)]
                      /\ allocated' = allocated
                      /\ next_hover_group' = next_hover_group
          /\ ~known => /\ id \notin Range(allocated)
                       /\ allocated' = Append(allocated, id)
          /\ IsSome(ret'.arg) => hover_groups_by_name'[Unwrap(ret'.arg)] = id
          /\ ~IsSome(ret'.arg) => hover_groups_by_name' = hover_groups_by_name
  /\ ret'.op # "clear" =>
       \A n \in DOMAIN hover_groups_by_name :
         /\ n \in DOMAIN hover_groups_by_name'
         /\ hover_groups_by_name'[n] = hover_groups_by_name[n]
  /\ ret'.op = "clear" =>
       /\ next_hover_group' = 0
       /\ hover_groups_by_name' = EmptyMap
       /\ allocated' = <<>>
C10_HoverGroupIdentifiers == [][C10_Step /\ C10_State']_vars
C10_Witness ==
  /\ ret.op = "hover_group" /\ ret.arg = Some("b") /\ ret.val = Some(0)
  /\ allocated = << 0, 1 >>
  /\ DOMAIN hover_groups_by_name = {"b"}

\* ------------------------------------------------------------ finish, as seen per call
\* The bounds-tree handle of call u, and where finish's hit list has it.
Handle(u) == [kind |-> calls[u].kind, index |-> calls[u].index]
HitPos(u) ==
  IF \E i \in 1..Len(hovered_bounds) : hovered_bounds[i].data = Handle(u)
  THEN CHOOSE i \in 1..Len(hovered_bounds) : hovered_bounds[i].data = Handle(u)
  ELSE 0
\* Call u's primitive was under the pointer; the walk got to it.
Hit(u) == HitPos(u) > 0
Reached(u) == Hit(u) /\ HitPos(u) <= walked
\* The walk ended at u with hits left below it.
Stopped(u) == Reached(u) /\ walked = HitPos(u) /\ HitPos(u) < Len(hovered_bounds)
\* What the store holds for call u before finish.
MetaOf(u) ==
  LET m == prim_sets[calls[u].kind].primitive_metadata
  IN IF calls[u].index \in DOMAIN m THEN Some(m[calls[u].index]) ELSE None
HoverVariantOf(u) == IF IsSome(MetaOf(u)) THEN Unwrap(MetaOf(u)).hover ELSE None
Occludes(u) == IsSome(MetaOf(u)) /\ Unwrap(MetaOf(u)).occludes_hover
GroupVariantsOf(u) ==
  LET v == prim_sets[calls[u].kind].hover_group_variants
  IN {key \in DOMAIN v : key[2] = calls[u].index /\ IsSome(v[key])}
\* The groups under which the caller registered a variant for u.
VariantGroups(u) ==
  {calls[u].groups[i][1] :
     i \in {j \in 1..Len(calls[u].groups) : IsSome(calls[u].groups[j][2])}}
FinishStep == phase = "build" /\ phase' = "finished"
Finished == phase = "finished" /\ ~panicked
TraversalDone == batch_iter # None /\ Unwrap(batch_iter).ended
RECURSIVE Flatten(_, _)
\* The primitives of the batches out[i..], in the order yielded.
Flatten(out, i) == IF i > Len(out) THEN <<>> ELSE out[i].items \o Flatten(out, i + 1)
Ascending(s) == \A i, j \in 1..Len(s) : i < j => s[i].order <= s[j].order
StrictlyAscending(s) == \A i, j \in 1..Len(s) : i < j => s[i].order < s[j].order

\* C3: after finish every kind's buffer is sorted ascending by order, and a
\* full batches() traversal yields every stored primitive exactly once, the
\* orders yielded being strictly increasing.
C3_BatchesReproduceSortedUnion ==
  Finished =>
    /\ \A k \in Kinds : Ascending(prim_sets[k].primitives)
    /\ TraversalDone =>
         LET e == Flatten(Unwrap(batch_iter).out, 1)
         IN /\ Len(e) = StoredCount
            /\ {e[i].uid : i \in 1..Len(e)} = Uids
            /\ StrictlyAscending(e)

\* C4 as stated: with A above B, both under the pointer and both with a hover
\* variant, an occluding A takes its hover variant and B stays as it was; a
\* non-occluding A lets B take its hover variant too.
C4_Case(a, b) ==
  /\ a # b /\ Hit(a)' /\ Hit(b)' /\ HitPos(a)' < HitPos(b)'
  /\ IsSome(HoverVariantOf(a)) /\ IsSome(HoverVariantOf(b))
C4_Outcome(a, b) ==
  /\ Occludes(a) => /\ StoredOf(a)' = Unwrap(HoverVariantOf(a))
                    /\ StoredOf(b)' = StoredOf(b)
  /\ ~Occludes(a) => StoredOf(b)' = Unwrap(HoverVariantOf(b))
C4_Original ==
  [][FinishStep => \A a, b \in Uids : C4_Case(a, b) => C4_Outcome(a, b)]_vars
\* Two quads and nothing else: one Quads batch holding both, in call order.
C4_TwoQuads ==
  (Finished /\ TraversalDone /\ Len(calls) = 2
     /\ calls[1].kind = "Quad" /\ calls[2].kind = "Quad") =>
    Unwrap(batch_iter).out =
      << [kind |-> "Quad", texture_id |-> None,
          items |-> << StoredOf(1), StoredOf(2) >>] >>
\* C4, amended: the same, when the walk reaches A, no variant of A or of B is
\* registered under a group the walk activates and, for the second part, the
\* walk reaches B; and two overlapping quads, the upper one occluding with a
\* hover variant, come out of batches() as one Quads batch [Q1, Q2].
C4_NoGroupVariant(a, b) ==
  /\ VariantGroups(a) \cap hovered_groups' = {}
  /\ VariantGroups(b) \cap hovered_groups' = {}
\* Call u's primitive is now the hover variant its store recorded for it, which
\* for every kind but path carries the payload of the caller's variant.
C4_HoldsHoverVariant(u) ==
  /\ StoredOf(u)' = Unwrap(HoverVariantOf(u))
  /\ calls[u].kind # "Path" => StoredOf(u)'.payload = Unwrap(calls[u].hover)
C4_AmendedOutcome(a, b) ==
  /\ Occludes(a) => /\ C4_HoldsHoverVariant(a)
                    /\ StoredOf(b)' = StoredOf(b)
  /\ (~Occludes(a) /\ Reached(b)') =>
       /\ C4_HoldsHoverVariant(a)
       /\ C4_HoldsHoverVariant(b)
C4_HoverOcclusion ==
  [][/\ FinishStep =>
          \A a, b \in Uids :
            (C4_Case(a, b) /\ Reached(a)' /\ C4_NoGroupVariant(a, b)) =>
              C4_AmendedOutcome(a, b)
     /\ C4_TwoQuads']_vars
C4_Witness ==
  /\ Finished /\ TraversalDone /\ Len(calls) = 2
  /\ calls[1].kind = "Quad" /\ calls[2].kind = "Quad"
  /\ IsSome(calls[1].hover) /\ IsSome(calls[2].hover) /\ calls[2].flag
  /\ Hit(1) /\ Hit(2) /\ walked = 1
  /\ StoredOf(2).payload = "h" /\ StoredOf(1).payload = "a"
  /\ Len(Unwrap(batch_iter).out) = 1

\* C5 as stated: a hit of a kind other than surface stops the walk exactly
\* when it was inserted with a hover variant; a surface, exactly when the
\* caller's flag says so.
C5_Original ==
  [][FinishStep =>
       \A u \in Uids :
         (Reached(u)' /\ HitPos(u)' < Len(hovered_bounds')) =>
           (Stopped(u)' <=> IF calls[u].kind = "Surface" THEN calls[u].flag
                            ELSE IsSome(calls[u].hover))]_vars
\* C5, amended: a shadow, path, underline or sprite never stops the walk,
\* with a hover variant or without; a quad stops it exactly when its
\* background is opaque and a surface exactly when the caller's flag is set,
\* again with a hover variant or without.
C5_OcclusionByKind ==
  [][FinishStep =>
       \A u \in Uids :
         (Reached(u)' /\ HitPos(u)' < Len(hovered_bounds')) =>
           (Stopped(u)' <=> (calls[u].kind \in {"Quad", "Surface"} /\ calls[u].flag))]_vars
C5_Witness ==
  /\ Finished /\ Len(calls) = 2
  /\ calls[2].kind = "Shadow" /\ IsSome(calls[2].hover)
  /\ Hit(1) /\ Hit(2) /\ walked = 2
  /\ StoredOf(2).payload = "h"

\* C6: C and D carry variants under the same group, the walk reaches C and D
\* is not under the pointer: after finish both hold their group variants.
C6_GroupHover ==
  Finished =>
    \A c, d \in Uids :
      \A i \in 1..Len(calls[c].groups), j \in 1..Len(calls[d].groups) :
        (/\ c # d /\ Reached(c) /\ ~Hit(d)
         /\ calls[c].groups[i][1] = calls[d].groups[j][1]
         /\ IsSome(calls[c].groups[i][2]) /\ IsSome(calls[d].groups[j][2])) =>
          /\ StoredOf(c).payload = Unwrap(calls[c].groups[i][2])
          /\ StoredOf(d).payload = Unwrap(calls[d].groups[j][2])

\* C7: finish changes the primitive of a call only if the walk reaches it and
\* it has a hover variant, or it has a variant under a group the walk
\* activated.
C7_FinishFrame ==
  [][FinishStep =>
       \A u \in Uids :
         StoredOf(u)' # StoredOf(u) =>
           \/ Reached(u)' /\ IsSome(HoverVariantOf(u))
           \/ \E key \in GroupVariantsOf(u) : key[1] \in hovered_groups']_vars
C7_Witness ==
  /\ Finished /\ Len(calls) = 2
  /\ IsSome(calls[1].hover) /\ VariantGroups(1) = {1}
  /\ Hit(1) /\ ~Reached(1) /\ StoredOf(1).payload = "a"
  /\ Reached(2) /\ hovered_groups = {0} /\ StoredOf(2).payload = "g"

\* C8: whichever payload a primitive ends up with after finish, its order is
\* the order its insert call returned.
C8_VariantsKeepOrder ==
  Finished => \A u \in Uids : StoredOf(u).order = calls[u].order

\* C9: a primitive inserted with a hover variant and reached by the walk
\* holds the payload of the variant the caller supplied (no group variant of
\* it being applied on top).
C9_HoverVariantPayload ==
  Finished =>
    \A u \in Uids :
      (/\ Reached(u) /\ IsSome(calls[u].hover)
       /\ VariantGroups(u) \cap hovered_groups = {}) =>
        StoredOf(u).payload = Unwrap(calls[u].hover)

\* C11: after clear, the accepted inserts return the orders the same inserts
\* returned in the lifetime before the clear, which began on a fresh or
\* cleared scene, whatever lookups and finish calls that lifetime saw.
SameInsert(a, b) ==
  /\ a.kind = b.kind /\ a.payload = b.payload /\ a.hover = b.hover
  /\ a.groups = b.groups /\ a.flag = b.flag
C11_ClearReplaysOrders ==
  \A i \in 1..Min2(Len(calls), Len(previous)) :
    (\A j \in 1..i : SameInsert(calls[j], previous[j])) =>
      calls[i].order = previous[i].order
C11_Witness ==
  /\ Len(previous) = 2 /\ Len(calls) = 2
  /\ previous[1].kind = "Quad" /\ previous[2].kind = "Surface"
  /\ SameInsert(calls[1], previous[1]) /\ SameInsert(calls[2], previous[2])
  /\ calls[2].order = 2 /\ phase = "finished"

\* C12: every sprite batch holds only sprites of the batch's texture_id, which
\* is that of its first sprite; so two sprites of one kind with adjacent
\* orders and different textures are never in one batch.
Yielded == IF batch_iter = None THEN <<>> ELSE Unwrap(batch_iter).out
C12_SpriteBatchesOneTexture ==
  \A b \in Range(Yielded) :
    b.kind \in SpriteKinds =>
      /\ b.texture_id = Some(texture_id(b.items[1]))
      /\ \A i \in 1..Len(b.items) : texture_id(b.items[i]) = Unwrap(b.texture_id)
C12_Witness ==
  /\ TraversalDone /\ Len(calls) = 2
  /\ calls[1].kind = "MonochromeSprite" /\ calls[2].kind = "MonochromeSprite"
  /\ calls[1].payload = "t1" /\ calls[2].payload = "t2"
  /\ calls[2].order = calls[1].order + 1
  /\ Len(Yielded) = 2
  /\ Yielded[1].texture_id = Some("t1") /\ Yielded[2].texture_id = Some("t2")

\* C13: batches are maximal runs: two consecutive batches never have the same
\* kind, except two sprite batches of one sprite kind with different
\* texture ids.
C13_BatchesAreMaximalRuns ==
  \A i \in 1..(Len(Yielded) - 1) :
    Yielded[i].kind = Yielded[i + 1].kind =>
      /\ Yielded[i].kind \in SpriteKinds
      /\ Yielded[i].texture_id # Yielded[i + 1].texture_id
C13_Witness ==
  /\ TraversalDone /\ Len(calls) = 3
  /\ calls[1].kind = "Quad" /\ calls[2].kind = "Quad" /\ calls[3].kind = "Path"
  /\ Len(Yielded) = 2
  /\ Yielded[1].kind = "Quad" /\ Len(Yielded[1].items) = 2
  /\ Yielded[2].kind = "Path"

\* C17: a traversal terminates: each batch is a non-empty slice of its kind's
\* buffer that starts where the kind's previous batch ended, each step that
\* yields a batch consumes at least one primitive of that kind and none of
\* another, and at most as many batches are yielded as primitives are stored.
NextStep == batch_iter # None /\ ret'.op = "next"
Consumed(it) ==
  LET n(k) == it.start[k]
  IN n("Shadow") + n("Quad") + n("Path") + n("Underline")
       + n("MonochromeSprite") + n("PolychromeSprite") + n("Surface")
C17_Step ==
  LET it == Unwrap(batch_iter)
      it2 == Unwrap(batch_iter')
  IN IF IsSome(ret'.val)
     THEN LET b == Unwrap(ret'.val)
              k == b.kind
          IN /\ Len(b.items) >= 1
             /\ it2.start[k] = it.start[k] + Len(b.items)
             /\ b.items = SubSeq(prim_sets[k].primitives, it.start[k] + 1, it2.start[k])
             /\ it2.start[k] <= Len(prim_sets[k].primitives)
             /\ \A j \in Kinds \ {k} : it2.start[j] = it.start[j]
             /\ it2.out = Append(it.out, b)
             /\ ~it2.ended
     ELSE it2.ended /\ it2.start = it.start /\ it2.out = it.out
C17_TraversalTerminates ==
  [][/\ NextStep => C17_Step
     /\ batch_iter' # None =>
          /\ Len(Unwrap(batch_iter').out) <= Consumed(Unwrap(batch_iter'))
          /\ Consumed(Unwrap(batch_iter')) <= StoredCount']_vars
C17_Witness ==
  /\ TraversalDone /\ StoredCount = 3 /\ Len(Yielded) = 3
  /\ Yielded[1].kind = "Quad" /\ Yielded[2].kind = "Shadow" /\ Yielded[3].kind = "Quad"

\* C18: a traversal ends exactly when no kind has a pending primitive, for
\* every order up to u32::MAX: next returns None only if every buffer is
\* consumed, and a batch stops short of a pending primitive of its kind only
\* for a pending primitive of another kind or for a change of texture.
Pending(it, k) == it.start[k] < Len(prim_sets[k].primitives)
C18_EndsOnlyWhenExhausted ==
  [][NextStep =>
       LET it == Unwrap(batch_iter)
           it2 == Unwrap(batch_iter')
       IN /\ ret'.val = None <=> \A k \in Kinds : ~Pending(it, k)
          /\ IsSome(ret'.val) =>
               LET k == Unwrap(ret'.val).kind
               IN Pending(it2, k) =>
                    \/ \E j \in Kinds \ {k} : Pending(it, j)
                    \/ /\ k \in SpriteKinds
                       /\ texture_id(prim_sets[k].primitives[it2.start[k] + 1])
                            # Unwrap(Unwrap(ret'.val).texture_id)]_vars

\* C19: selection is total and deterministic: while some kind has a pending
\* primitive, next yields a batch of the pending kind with the smallest
\* (order, discriminant) pair, and no primitive of the batch comes at or
\* after the pending primitive of another kind in that ordering.
PeekKey(it, k) == << prim_sets[k].primitives[it.start[k] + 1].order, k >>
C19_SelectsSmallestPending ==
  [][NextStep =>
       LET it == Unwrap(batch_iter)
           pending == {k \in Kinds : Pending(it, k)}
       IN pending # {} =>
            /\ IsSome(ret'.val)
            /\ LET b == Unwrap(ret'.val)
               IN /\ b.kind \in pending
                  /\ \A j \in pending \ {b.kind} :
                       \A i \in 1..Len(b.items) :
                         TupleLess(<< b.items[i].order, b.kind >>, PeekKey(it, j))]_vars

\* C14: finish visits the hits in strictly descending order and stops at the
\* first one that occludes hover; the groups it activates are groups of hits
\* it visited, those of the occluding hit included, and a variant under a
\* group that was not activated is not applied.
GroupsOfCall(u) == {calls[u].groups[i][1] : i \in 1..Len(calls[u].groups)}
C14_WalkStopsAtOccluder ==
  [][FinishStep =>
       /\ \A i, j \in 1..Len(hovered_bounds') :
            i < j => hovered_bounds'[i].order > hovered_bounds'[j].order
       /\ \A u \in Uids :
            /\ (Reached(u)' /\ HitPos(u)' < walked') => ~Occludes(u)
            /\ (Hit(u)' /\ ~Reached(u)') =>
                 \E t \in Uids : Reached(t)' /\ HitPos(t)' = walked' /\ Occludes(t)
            /\ (Reached(u)' /\ Occludes(u)) => GroupsOfCall(u) \subseteq hovered_groups'
       /\ \A g \in hovered_groups' :
            \E u \in Uids : Reached(u)' /\ g \in GroupsOfCall(u)
       /\ \A u \in Uids :
            (VariantGroups(u) \cap hovered_groups' = {}) =>
              StoredOf(u)'.payload # "g"]_vars
C14_Witness ==
  /\ Finished /\ Len(calls) = 2
  /\ calls[2].kind = "Quad" /\ calls[2].flag /\ GroupsOfCall(2) = {1}
  /\ GroupsOfCall(1) = {0}
  /\ Hit(1) /\ Hit(2) /\ walked = 1 /\ hovered_groups = {1}
  /\ StoredOf(1).payload = "a" /\ StoredOf(2).payload = "g"

\* C16: clear leaves every store empty (primitives, metadata, memberships,
\* group variants), the bounds tree and the hits included, so batches() on
\* the cleared scene yields nothing, the stores only ever hold metadata of
\* primitives inserted since, and a finish gives a primitive only a payload
\* its own insert supplied and stops only at an occluder inserted since.
SuppliedPayloads(u) ==
  {calls[u].payload}
    \cup (IF IsSome(calls[u].hover) THEN {Unwrap(calls[u].hover)} ELSE {})
    \cup {Unwrap(calls[u].groups[i][2]) :
            i \in {j \in 1..Len(calls[u].groups) : IsSome(calls[u].groups[j][2])}}
NoStaleMetadata ==
  \A k \in Kinds :
    LET set == prim_sets[k]
        live == 0..(Len(set.primitives) - 1)
    IN /\ DOMAIN set.primitive_metadata \subseteq live
       /\ \A m \in set.hover_group_membership : m[1] \in live
       /\ \A key \in DOMAIN set.hover_group_variants : key[2] \in live
C16_ClearDropsEverything ==
  [][/\ ret'.op = "clear" =>
          /\ prim_sets' = [k \in Kinds |-> EmptySet]
          /\ bounds_tree' = <<>> /\ hovered_bounds' = <<>>
     /\ (NextStep /\ StoredCount = 0) => ret'.val = None
     /\ NoStaleMetadata'
     /\ FinishStep =>
          \A u \in Uids :
            /\ StoredOf(u)'.payload \in SuppliedPayloads(u)
            /\ Stopped(u)' => calls[u].flag]_vars
C16_Witness ==
  /\ Len(previous) = 2 /\ previous[1].kind = "Quad" /\ previous[1].flag
  /\ IsSome(previous[1].hover) /\ Len(previous[1].groups) = 1
  /\ Finished /\ Len(calls) = 2
  /\ calls[1].kind = "Shadow" /\ calls[2].kind = "Quad" /\ ~calls[2].flag
  /\ walked = 2 /\ StoredOf(2).payload = "a"
  /\ TraversalDone /\ Len(Yielded) = 2

\* C15: no operation faults: whatever sequence of calls the scene has seen, a
\* finish, a repeated one included, completes.
C15_NoOperationFaults == ~panicked

\* The store contents a first finish at mouse_position can leave behind.
FinishStores(mouse_position) ==
  {r.prim_sets : r \in FinishResults(mouse_position)}

\* C20: finish is deterministic: for the insertions made so far and a given
\* pointer position, a first finish leaves one possible content in every store,
\* whatever order the set of active groups is iterated in.
C20_FinishIsDeterministic ==
  [][\A m \in MousePositions :
       (Building /\ ret'.op = "finish" /\ prim_sets' \in FinishStores(m))
         => FinishStores(m) = {prim_sets'}]_vars

\* The payloads the caller registered for u under the groups now active.
ActiveGroupPayloads(u) ==
  {Unwrap(calls[u].groups[i][2]) :
     i \in {j \in 1..Len(calls[u].groups) :
              /\ IsSome(calls[u].groups[j][2])
              /\ calls[u].groups[j][1] \in hovered_groups}}

\* C21: group variants are applied after the hover walk: a primitive reached
\* by the walk that has its own hover variant and a variant under a group
\* activated in the same finish holds a group variant after finish, not the
\* hover variant.
C21_GroupVariantWins ==
  Finished =>
    \A u \in Uids :
      (Reached(u) /\ IsSome(calls[u].hover) /\ ActiveGroupPayloads(u) # {}) =>
        /\ StoredOf(u).payload \in ActiveGroupPayloads(u)
        /\ StoredOf(u).payload # Unwrap(calls[u].hover)
C21_Witness ==
  /\ Finished /\ Len(calls) = 2
  /\ calls[2].kind = "MonochromeSprite"
  /\ calls[2].hover = Some("h") /\ VariantGroups(2) = {0}
  /\ Reached(2) /\ hovered_groups = {0}
  /\ StoredOf(2).payload = "g"
  /\ calls[1].hover = Some("h") /\ Reached(1) /\ StoredOf(1).payload = "h"

\* Entry j of the bounds tree, made by the j-th accepted call, names a
\* position of its kind's store, and that position holds the call's primitive.
EntryAddressesItsPrimitive(j) ==
  LET handle == bounds_tree[j].data
      store == prim_sets[handle.kind].primitives
  IN /\ handle.kind = calls[j].kind
     /\ handle.index < Len(store)
     /\ store[handle.index + 1].uid = j
     /\ store[handle.index + 1].payload = calls[j].payload
     /\ store[handle.index + 1].order = bounds_tree[j].order
\* Every store still holds one primitive for each accepted call of its kind.
OnePrimitivePerCall ==
  \A k \in Kinds :
    LET store == prim_sets[k].primitives
    IN /\ {store[i].uid : i \in 1..Len(store)} = {u \in Uids : calls[u].kind = k}
       /\ Len(store) = Cardinality({u \in Uids : calls[u].kind = k})

\* C22: while a frame is being built every entry of the bounds tree carries a
\* handle (kind, i) with i below the length of that kind's store, the
\* primitive at position i being the one inserted by the call that made the
\* entry; so every hover(i) of finish addresses a position of the store and
\* the primitive meant, and finish loses or duplicates no primitive.
C22_HandlesAddressStores ==
  [][/\ phase' = "build" =>
          /\ Len(bounds_tree') = Len(calls')
          /\ \A j \in 1..Len(bounds_tree') : EntryAddressesItsPrimitive(j)'
     /\ FinishStep =>
          /\ \A i \in 1..Len(hovered_bounds') :
               \E j \in 1..Len(bounds_tree) :
                 /\ hovered_bounds'[i] = bounds_tree[j]
                 /\ EntryAddressesItsPrimitive(j)
          /\ OnePrimitivePerCall']_vars
C22_Witness ==
  /\ Finished /\ ret.op = "finish" /\ Len(calls) = 2
  /\ calls[1].kind = "Underline" /\ calls[2].kind = "Underline"
  /\ bounds_tree[2].data = [kind |-> "Underline", index |-> 1]
  /\ calls[2].hover = Some("h") /\ calls[1].hover = Some("h")
  /\ Hit(2) /\ ~Hit(1)
  /\ StoredOf(2).payload = "h" /\ StoredOf(1).payload = "a"

====
